---- MODULE Spec2Model ----
(***************************************************************************)
(* Model of the GlobalConcurrencyManager of agency_swarm                   *)
(* (src/src/agency_swarm/tools/concurrency_v2.py): the lock table          *)
(* locks_by_agent, the wait-for graph of the DeadlockDetector, the two     *)
(* bounded event histories, and the operations acquire_lock, release_lock, *)
(* override_lock, detect_deadlocks, resolve_deadlock and the monitor tick. *)
(*                                                                         *)
(* Python dicts keep insertion order and the code iterates over them, so a *)
(* dict is modelled as a sequence of <<key, value>> pairs without repeated *)
(* keys.  uuid4() values are modelled by a counter, time.time() by the     *)
(* variable now, which only the Tick action advances.  Each call is one    *)
(* action: the methods hold _locks_lock over their reads and writes of the *)
(* lock table and contain no await before they are done, but for           *)
(* override_lock, which never gets past its await.  SpecThreads is the     *)
(* exception: there the calls come from several threads, and a call is two *)
(* steps, its with-block and the record_lock_event call that follows it.   *)
(*                                                                         *)
(* Left out, being read by no property stated here: event_id, conflict_id, *)
(* timestamp and description of the events, the time-valued details of the *)
(* lock events, and the list _lock_durations.                              *)
(***************************************************************************)
EXTENDS Integers, Sequences, FiniteSets, TLC

\* ------------------------------------------------------------------ bounds
MaxUuid == 5       \* acquire_lock is not called once this many uuids were drawn
MaxTime == 1       \* the clock stops advancing here
HistorySize == 2   \* maxlen of the two event deques (history_size, 1000 in the code)
MaxCallbacks == 2  \* register_callback is not called once this many are registered
MaxInstances == 4  \* no call is started once this many managers were constructed

\* ------------------------------------------------------- program constants
default_timeout == 30

\* ------------------------------------------------------------ input values
\* Names are arbitrary strings: "A" with "B:R" and "A:B" with "R" give one lock_key.
Agents == {"A", "A:B"}
Tools == {"R", "B:R"}
Priorities == {3, 7}
Timeouts == {0, 1}          \* 0 stands for a falsy timeout argument (None or 0)
OwnerThreads == {"t1"}
Threads == {"t1", "t2"}     \* the threads that call release_lock and get_analytics
None == "None"
\* What a registered callback does when it is called: it returns, or it raises
\* an Exception.
Callbacks == {"returns", "raises"}

\* ------------------------------------------------------------ Python dicts
DictKeys(d) == [i \in 1..Len(d) |-> d[i][1]]
DictHas(d, k) == \E i \in 1..Len(d) : d[i][1] = k
DictGet(d, k) == d[CHOOSE i \in 1..Len(d) : d[i][1] = k][2]
DictSet(d, k, v) ==
    IF DictHas(d, k)
    THEN [i \in 1..Len(d) |-> IF d[i][1] = k THEN <<k, v>> ELSE d[i]]
    ELSE Append(d, <<k, v>>)
\* A del that removes nothing.
DictDelNothing(d, k) == d
DictDel(d, k) == SelectSeq(d, LAMBDA e : e[1] # k)
DictValues(d) == {d[i][2] : i \in 1..Len(d)}

\* An append that makes room by dropping the newest retained event.
DequeAppendDropNewest(q, e) ==
    IF Len(q) >= HistorySize THEN Append(SubSeq(q, 1, Len(q) - 1), e) ELSE Append(q, e)

\* deque(maxlen=history_size).append
DequeAppend(q, e) == IF Len(q) >= HistorySize THEN Append(Tail(q), e) ELSE Append(q, e)

\* lock_key = f"{agent_name}:{tool_name}"
LockKey(agent_name, tool_name) == agent_name \o ":" \o tool_name

VARIABLES
    locks_by_agent,    \* dict lock_key -> AgentLockState
    wait_for_graph,    \* dict agent -> set of agents it waits for
    lock_history,      \* deque of LockEvent
    conflict_history,  \* deque of ConflictEvent
    event_callbacks,   \* list of the registered callbacks
    recorded,          \* the record_*_event calls made by the most recent call
    in_flight,         \* events of calls that left their with-block, not yet recorded
    locks_lock,        \* "free", or the call or thread that holds _locks_lock
    analytics_lock,    \* "free", or the thread that holds _analytics_lock
    pc,                \* where each thread is in release_lock or get_analytics
    running,           \* _running
    monitor_task,      \* _monitor_task: None, or what became of the task
    ticks,             \* passes of monitor_loop made so far, modulo 2
    global_manager,    \* _global_manager: 0 for None, or the number of the instance
    manager_lock,      \* "free", or the thread that holds _manager_lock
    instances,         \* number of GlobalConcurrencyManager() calls made so far
    created,           \* number of them made since the last reset
    returned,          \* <<thread, instance>> of the get calls since the last reset
    active_connections, \* ws_manager.active_connections: the connected WebSockets
    uuid_count,        \* number of uuid4() values drawn for lock and request ids
    now,               \* time.time()
    resolution_strategy,     \* deadlock_detector.resolution_strategy
    enable_auto_resolution,  \* enable_auto_resolution
    last               \* the most recent call: its arguments and how it ended

vars == <<locks_by_agent, wait_for_graph, lock_history, conflict_history,
          event_callbacks, recorded, in_flight,
          locks_lock, analytics_lock, pc, running, monitor_task, ticks,
          global_manager, manager_lock, instances, created, returned,
          active_connections,
          uuid_count, now, resolution_strategy,
          enable_auto_resolution, last>>

\* The part of the state the manager's methods read and write, as one value, at
\* the start of a call: the call has recorded no event, and no exception is
\* propagating (raised).
State ==
    [locks_by_agent |-> locks_by_agent, wait_for_graph |-> wait_for_graph,
     lock_history |-> lock_history, conflict_history |-> conflict_history,
     event_callbacks |-> event_callbacks, recorded |-> <<>>, raised |-> FALSE,
     uuid_count |-> uuid_count]

Becomes(s) ==
    /\ locks_by_agent' = s.locks_by_agent
    /\ wait_for_graph' = s.wait_for_graph
    /\ lock_history' = s.lock_history
    /\ conflict_history' = s.conflict_history
    /\ event_callbacks' = s.event_callbacks
    /\ recorded' = s.recorded
    /\ uuid_count' = s.uuid_count

\* ---------------------------------------------------------------- records
PendingLockRequest(request_id, agent_name, tool_name, priority, timeout) ==
    [request_id |-> request_id, agent_name |-> agent_name, tool_name |-> tool_name,
     priority |-> priority, requested_at |-> now, retry_count |-> 0,
     timeout_seconds |-> timeout]

AgentLockState(agent_name, tool_name, lock_id, priority, owner, retry_count) ==
    [agent_name |-> agent_name, tool_name |-> tool_name, lock_id |-> lock_id,
     acquired_at |-> now, expires_at |-> None, priority |-> priority,
     owner_thread_id |-> owner, retry_count |-> retry_count,
     waiting_queue |-> <<>>, execution_stage |-> "acquired"]

LockEvent(event_type, agent_name, tool_name, lock_id, details) ==
    [event_type |-> event_type, agent_name |-> agent_name, tool_name |-> tool_name,
     lock_id |-> lock_id, details |-> details]

ConflictEvent(involved_agents, resolution, auto_resolved, resolved_at) ==
    [conflict_type |-> "deadlock", involved_agents |-> involved_agents,
     resolution |-> resolution, auto_resolved |-> auto_resolved,
     resolved_at |-> resolved_at]

\* ------------------------------------------------- ConcurrencyEventManager
\* The loop over event_callbacks without its try/except: the first callback
\* that raises ends it, and the exception leaves the loop.
RECURSIVE notify_uncaught(_)
notify_uncaught(callbacks) ==
    IF callbacks = <<>> THEN [delivered |-> <<>>, raised |-> FALSE]
    ELSE IF Head(callbacks) = "raises"
    THEN [delivered |-> <<Head(callbacks)>>, raised |-> TRUE]
    ELSE LET r == notify_uncaught(Tail(callbacks))
         IN [delivered |-> <<Head(callbacks)>> \o r.delivered, raised |-> r.raised]

\* for callback in self.event_callbacks: try: callback(...) except Exception: pass
\* delivered lists the callbacks called; raised tells whether an exception leaves
\* the loop.
RECURSIVE notify(_)
notify(callbacks) ==
    IF callbacks = <<>> THEN [delivered |-> <<>>, raised |-> FALSE]
    ELSE LET r == notify(Tail(callbacks))
         IN [delivered |-> <<Head(callbacks)>> \o r.delivered, raised |-> r.raised]

\* The same method with the event appended twice.
record_lock_event_twice(s, event, locks_lock_held) ==
    IF s.raised THEN s
    ELSE LET n == notify(s.event_callbacks) IN
         [s EXCEPT !.lock_history = DequeAppend(DequeAppend(@, event), event),
                   !.recorded = Append(Append(@,
                       [type |-> "lock_event", event_type |-> event.event_type,
                        lock_id |-> event.lock_id, locks_lock_held |-> locks_lock_held,
                        delivered |-> n.delivered]),
                       [type |-> "lock_event", event_type |-> event.event_type,
                        lock_id |-> event.lock_id, locks_lock_held |-> locks_lock_held,
                        delivered |-> n.delivered]),
                   !.raised = n.raised]

\* record_lock_event(event), called with or without _locks_lock held by the
\* caller.  A statement that follows a raise is not executed: with s.raised the
\* call does not happen.
record_lock_event(s, event, locks_lock_held) ==
    IF s.raised THEN s
    ELSE LET n == notify(s.event_callbacks) IN
         [s EXCEPT !.lock_history = DequeAppend(@, event),
                   !.recorded = Append(@,
                       [type |-> "lock_event", event_type |-> event.event_type,
                        lock_id |-> event.lock_id, locks_lock_held |-> locks_lock_held,
                        delivered |-> n.delivered]),
                   !.raised = n.raised]

record_conflict_event(s, event, locks_lock_held) ==
    IF s.raised THEN s
    ELSE LET n == notify(s.event_callbacks) IN
         [s EXCEPT !.conflict_history = DequeAppend(@, event),
                   !.recorded = Append(@,
                       [type |-> "conflict_event", event_type |-> event.conflict_type,
                        lock_id |-> 0, locks_lock_held |-> locks_lock_held,
                        delivered |-> n.delivered]),
                   !.raised = n.raised]

\* ------------------------------------------------------- DeadlockDetector
update_wait_for_graph(g, waiting_agent, blocking_agent) ==
    LET g1 == IF DictHas(g, waiting_agent) THEN g ELSE DictSet(g, waiting_agent, {})
    IN DictSet(g1, waiting_agent, DictGet(g1, waiting_agent) \cup {blocking_agent})

remove_from_graph(g, agent) ==
    LET g1 == DictDel(g, agent)
    IN [i \in 1..Len(g1) |-> <<g1[i][1], g1[i][2] \ {agent}>>]

GraphGet(g, node) == IF DictHas(g, node) THEN DictGet(g, node) ELSE {}

\* The order in which a Python set is iterated is not fixed by its contents:
\* iteration_order is one possible order of the agents.
IterationOrders ==
    {o \in [1..Cardinality(Agents) -> Agents] : \A i, j \in DOMAIN o : o[i] = o[j] => i = j}
InOrder(S, iteration_order) == SelectSeq(iteration_order, LAMBDA x : x \in S)

Index(seq, x) == CHOOSE i \in 1..Len(seq) : seq[i] = x /\ \A j \in 1..(i - 1) : seq[j] # x

\* dfs(node) of detect_cycles; d holds visited, rec_stack, path, cycles and the
\* value returned.
RECURSIVE dfs(_, _, _, _), dfs_neighbors(_, _, _, _, _)
dfs(g, iteration_order, node, d) ==
    dfs_neighbors(g, iteration_order, node, InOrder(GraphGet(g, node), iteration_order),
        [d EXCEPT !.visited = @ \cup {node}, !.rec_stack = @ \cup {node},
                  !.path = Append(@, node)])

dfs_neighbors(g, iteration_order, node, neighbors, d) ==
    IF neighbors = <<>>
    THEN [d EXCEPT !.path = SubSeq(@, 1, Len(@) - 1), !.rec_stack = @ \ {node},
                   !.ret = FALSE]
    ELSE LET neighbor == Head(neighbors) IN
         IF neighbor \notin d.visited
         THEN LET r == dfs(g, iteration_order, neighbor, d) IN
              IF r.ret THEN r
              ELSE dfs_neighbors(g, iteration_order, node, Tail(neighbors), r)
         ELSE IF neighbor \in d.rec_stack
         THEN LET cycle_start == Index(d.path, neighbor)
                  cycle == SubSeq(d.path, cycle_start, Len(d.path)) \o <<neighbor>>
              IN [d EXCEPT !.cycles = Append(@, cycle), !.ret = TRUE]
         ELSE dfs_neighbors(g, iteration_order, node, Tail(neighbors), d)

RECURSIVE detect_cycles_from(_, _, _, _)
detect_cycles_from(g, iteration_order, nodes, d) ==
    IF nodes = <<>> THEN d.cycles
    ELSE detect_cycles_from(g, iteration_order, Tail(nodes),
             IF Head(nodes) \notin d.visited
             THEN dfs(g, iteration_order, Head(nodes), d)
             ELSE d)

detect_cycles(g, iteration_order) ==
    detect_cycles_from(g, iteration_order, DictKeys(g),
        [visited |-> {}, rec_stack |-> {}, path |-> <<>>, cycles |-> <<>>, ret |-> FALSE])

calculate_severity(cycle) ==
    LET cycle_len == Len(cycle) - 1 IN
    IF cycle_len >= 4 THEN "high" ELSE IF cycle_len >= 3 THEN "medium" ELSE "low"

\* get_deadlock_info: locks is the dict keyed by lock_key, looked up by agent name.
get_deadlock_info(cycle, locks) ==
    LET agents == SubSeq(cycle, 1, Len(cycle) - 1)
        found == SelectSeq(agents, LAMBDA agent : DictHas(locks, agent))
    IN [cycle |-> cycle,
        involved_locks |-> [i \in 1..Len(found) |-> DictGet(locks, found[i]).lock_id],
        severity |-> calculate_severity(cycle)]

\* ------------------------------------------------------------ release_lock
\* The same sort with reverse=True: largest priority value first.
RECURSIVE sorted_by_priority_reversed(_)
sorted_by_priority_reversed(queue) ==
    IF queue = <<>> THEN <<>>
    ELSE LET i == CHOOSE i \in 1..Len(queue) :
                      /\ \A j \in 1..Len(queue) : queue[i].priority >= queue[j].priority
                      /\ \A j \in 1..(i - 1) : queue[j].priority < queue[i].priority
         IN <<queue[i]>> \o
            sorted_by_priority_reversed(
                SubSeq(queue, 1, i - 1) \o SubSeq(queue, i + 1, Len(queue)))

\* sorted(lock.waiting_queue, key=lambda r: r.priority): a stable sort.
RECURSIVE sorted_by_priority(_)
sorted_by_priority(queue) ==
    IF queue = <<>> THEN <<>>
    ELSE LET i == CHOOSE i \in 1..Len(queue) :
                      /\ \A j \in 1..Len(queue) : queue[i].priority <= queue[j].priority
                      /\ \A j \in 1..(i - 1) : queue[j].priority > queue[i].priority
         IN <<queue[i]>> \o
            sorted_by_priority(SubSeq(queue, 1, i - 1) \o SubSeq(queue, i + 1, Len(queue)))

\* The same search without the test of lock_id: the first lock of the table.
FindLockFirst(locks, lock_id) ==
    IF locks = <<>> THEN <<>> ELSE <<locks[1]>>

\* for key, l in self.locks_by_agent.items(): if l.lock_id == lock_id: ... break
FindLock(locks, lock_id) ==
    SelectSeq(locks, LAMBDA e : e[2].lock_id = lock_id)

\* The waiting queue of the lock that takes the slot of a released lock.
PromotedWaitingQueue(lock, next_request) == <<>>

\* next_lock built with the agent_name of the lock being released.
NextLockOfHolder(lock, next_request, lock_id) ==
    [AgentLockState(lock.agent_name, next_request.tool_name, lock_id,
                    next_request.priority, None, next_request.retry_count)
        EXCEPT !.waiting_queue = PromotedWaitingQueue(lock, next_request)]

\* next_lock = AgentLockState(agent_name=next_request.agent_name, ...)
NextLock(lock, next_request, lock_id) ==
    [AgentLockState(next_request.agent_name, next_request.tool_name, lock_id,
                    next_request.priority, None, next_request.retry_count)
        EXCEPT !.waiting_queue = PromotedWaitingQueue(lock, next_request)]

\* The with-block of release_lock(lock_id) on state s: the state it leaves, the
\* lock it found (lock) and the request it promoted (promoted), both as
\* sequences of at most one element.  found is FALSE when the block returned
\* False.
release_lock_locked(s, lock_id) ==
    LET hit == FindLock(s.locks_by_agent, lock_id) IN
    IF hit = <<>> THEN [s |-> s, found |-> FALSE, lock |-> <<>>, promoted |-> <<>>]
    ELSE
    LET lock_key == hit[1][1]
        lock == hit[1][2]
        graph == remove_from_graph(s.wait_for_graph, lock.agent_name)
        sorted_queue == sorted_by_priority(lock.waiting_queue)
        next_request == sorted_queue[1]
        next_lock == NextLock(lock, next_request, s.uuid_count + 1)
    IN
    IF lock.waiting_queue # <<>>
    THEN [s |-> record_lock_event(
                    [s EXCEPT !.wait_for_graph = graph,
                              !.locks_by_agent = DictSet(@, lock_key, next_lock),
                              !.uuid_count = @ + 1],
                    LockEvent("acquired_from_queue", next_request.agent_name,
                              next_request.tool_name, next_lock.lock_id,
                              [previous_lock_id |-> lock_id]),
                    TRUE),
          found |-> TRUE, lock |-> <<lock>>, promoted |-> <<next_request>>]
    ELSE [s |-> [s EXCEPT !.wait_for_graph = graph,
                          !.locks_by_agent = DictDel(@, lock_key)],
          found |-> TRUE, lock |-> <<lock>>, promoted |-> <<>>]

\* The "released" event release_lock records once it has left its with-block.
ReleasedEvent(lock) ==
    LockEvent("released", lock.agent_name, lock.tool_name, lock.lock_id, <<>>)

\* release_lock(lock_id) on state s; ret is the value returned, when the call
\* returns (s.raised is FALSE).
release_lock(s, lock_id) ==
    LET r == release_lock_locked(s, lock_id) IN
    IF ~r.found THEN [s |-> r.s, ret |-> FALSE, lock |-> <<>>, promoted |-> <<>>]
    ELSE [s |-> record_lock_event(r.s, ReleasedEvent(r.lock[1]), FALSE),
          ret |-> TRUE, lock |-> r.lock, promoted |-> r.promoted]

\* ------------------------------------------------------- detect_deadlocks
\* The same loop, resolving as it records: each cycle's first agent is taken out
\* of the wait-for graph.
RECURSIVE record_deadlocks_and_remove(_, _)
record_deadlocks_and_remove(s, cycles) ==
    IF cycles = <<>> THEN s
    ELSE record_deadlocks_and_remove(
             [record_conflict_event(s,
                  ConflictEvent(SubSeq(Head(cycles), 1, Len(Head(cycles)) - 1),
                                None, FALSE, None),
                  FALSE)
              EXCEPT !.wait_for_graph = remove_from_graph(@, Head(cycles)[1])],
             Tail(cycles))

RECURSIVE record_deadlocks(_, _)
record_deadlocks(s, cycles) ==
    IF cycles = <<>> THEN s
    ELSE record_deadlocks(
             record_conflict_event(s,
                 ConflictEvent(SubSeq(Head(cycles), 1, Len(Head(cycles)) - 1),
                               None, FALSE, None),
                 FALSE),
             Tail(cycles))

detect_deadlocks(s, iteration_order) ==
    LET cycles == detect_cycles(s.wait_for_graph, iteration_order) IN
    [s |-> record_deadlocks(s, cycles),
     deadlocks |-> [i \in 1..Len(cycles) |-> get_deadlock_info(cycles[i], s.locks_by_agent)]]

\* -------------------------------------------------------- resolve_deadlock
Strategies == {"priority", "youngest", "oldest", "random", "manual"}

\* The first lock of each agent of cycle[:-1], in the order of the cycle.
InvolvedLocks(locks, cycle) ==
    LET agents == SubSeq(cycle, 1, Len(cycle) - 1)
        holding == SelectSeq(agents,
                       LAMBDA agent : \E i \in 1..Len(locks) : locks[i][2].agent_name = agent)
    IN [i \in 1..Len(holding) |->
           locks[CHOOSE k \in 1..Len(locks) :
                     /\ locks[k][2].agent_name = holding[i]
                     /\ \A j \in 1..(k - 1) : locks[j][2].agent_name # holding[i]][2]]

\* max(seq, key) and min(seq, key) return the first extremal element.
FirstMax(seq, key) ==
    seq[CHOOSE i \in 1..Len(seq) :
            /\ \A j \in 1..Len(seq) : seq[j][key] <= seq[i][key]
            /\ \A j \in 1..(i - 1) : seq[j][key] < seq[i][key]]
\* min with its comparison reversed: the first largest element.
FirstMinReversed(seq, key) ==
    seq[CHOOSE i \in 1..Len(seq) :
            /\ \A j \in 1..Len(seq) : seq[j][key] <= seq[i][key]
            /\ \A j \in 1..(i - 1) : seq[j][key] < seq[i][key]]
FirstMin(seq, key) ==
    seq[CHOOSE i \in 1..Len(seq) :
            /\ \A j \in 1..Len(seq) : seq[j][key] >= seq[i][key]
            /\ \A j \in 1..(i - 1) : seq[j][key] > seq[i][key]]

\* The locks the strategy may pick among involved_locks (non-empty).
Victims(strategy, involved_locks) ==
    CASE strategy = "priority" -> {FirstMax(involved_locks, "priority")}
      [] strategy = "youngest" -> {FirstMax(involved_locks, "acquired_at")}
      [] strategy = "oldest" -> {FirstMin(involved_locks, "acquired_at")}
      [] strategy = "random" -> {involved_locks[i] : i \in 1..Len(involved_locks)}
      [] OTHER -> {}

\* resolve_deadlock(cycle, strategy, victim_lock_id) on state s: the set of its
\* possible outcomes (more than one under the random strategy).  victim_lock_id 0
\* stands for None.
resolve_deadlock(s, cycle, strategy_arg, victim_lock_id) ==
    LET strategy == IF strategy_arg = None THEN resolution_strategy ELSE strategy_arg
        involved_locks == InvolvedLocks(s.locks_by_agent, cycle)
    IN
    IF strategy = "manual"
    THEN IF victim_lock_id = 0
         THEN {[s |-> s, ret |-> FALSE, victim |-> 0]}
         ELSE LET r == release_lock(s, victim_lock_id)
              IN {[s |-> r.s, ret |-> r.ret, victim |-> victim_lock_id]}
    ELSE IF involved_locks = <<>>
    THEN {[s |-> s, ret |-> FALSE, victim |-> 0]}
    ELSE {LET r == release_lock(s, victim_lock.lock_id) IN
          [s |-> record_conflict_event(r.s,
                      ConflictEvent(SubSeq(cycle, 1, Len(cycle) - 1), strategy, TRUE, now),
                      FALSE),
           ret |-> TRUE, victim |-> victim_lock.lock_id]
          : victim_lock \in Victims(strategy, involved_locks)}

\* ------------------------------------------------------------------- Init
\* GlobalConcurrencyManager() as get_global_concurrency_manager constructs it.
Init ==
    /\ locks_by_agent = <<>>
    /\ wait_for_graph = <<>>
    /\ lock_history = <<>>
    /\ conflict_history = <<>>
    /\ event_callbacks = <<>>
    /\ recorded = <<>>
    /\ in_flight = {}
    /\ locks_lock = "free"
    /\ analytics_lock = "free"
    /\ pc = [thread \in Threads |-> [at |-> "idle"]]
    /\ running = FALSE
    /\ monitor_task = None
    /\ ticks = 0
    /\ global_manager = 0
    /\ manager_lock = "free"
    /\ instances = 0
    /\ created = 0
    /\ returned = {}
    /\ active_connections = <<>>
    /\ uuid_count = 0
    /\ now = 0
    /\ resolution_strategy = "priority"
    /\ enable_auto_resolution = TRUE
    /\ last = [op |-> "init"]

config == <<resolution_strategy, enable_auto_resolution>>
threads == <<analytics_lock, pc>>
singleton == <<global_manager, manager_lock, instances, created, returned>>
frontend == <<active_connections>>
host == <<running, monitor_task, ticks, singleton, frontend>>

\* The clock advances between calls.
Tick(max_time) ==
    /\ now < max_time
    /\ now' = now + 1
    /\ UNCHANGED <<locks_by_agent, wait_for_graph, lock_history, conflict_history,
                   event_callbacks, recorded, in_flight,
                   locks_lock, uuid_count, config, threads, host, last>>

\* ------------------------------------------------------------ acquire_lock
\* The with-block of acquire_lock on state s.  It ends with a raise (request
\* holds the pending request it queued), or it leaves the "acquired" event for
\* the caller to record (event, a sequence of one element).
acquire_lock_locked(s, agent_name, tool_name, priority, timeout_arg, owner_thread_id) ==
    LET timeout == IF timeout_arg = 0 THEN default_timeout ELSE timeout_arg
        lock_key == LockKey(agent_name, tool_name)
        lock_id == s.uuid_count + 1
    IN
    IF DictHas(s.locks_by_agent, lock_key)
    THEN LET existing_lock == DictGet(s.locks_by_agent, lock_key)
             request == PendingLockRequest(s.uuid_count + 2, agent_name, tool_name,
                                           priority, timeout)
             queue == Append(existing_lock.waiting_queue, request)
         IN [s |-> record_lock_event(
                       [s EXCEPT !.locks_by_agent = DictSet(@, lock_key,
                                     [existing_lock EXCEPT !.waiting_queue = queue]),
                                 !.wait_for_graph = update_wait_for_graph(@, agent_name,
                                                        existing_lock.agent_name),
                                 !.uuid_count = @ + 2],
                       LockEvent("queued", agent_name, tool_name, lock_id,
                                 [queue_position |-> Len(queue)]),
                       TRUE),
             lock_id |-> lock_id, request |-> <<request>>, event |-> <<>>]
    ELSE [s |-> [s EXCEPT !.locks_by_agent = DictSet(@, lock_key,
                              AgentLockState(agent_name, tool_name, lock_id, priority,
                                             owner_thread_id, 0)),
                          !.uuid_count = @ + 1],
          lock_id |-> lock_id, request |-> <<>>,
          event |-> <<LockEvent("acquired", agent_name, tool_name, lock_id,
                                [priority |-> priority])>>]

\* acquire_lock on state s: outcome is "returned" (the call returns lock_id),
\* "TimeoutError" (raise asyncio.TimeoutError, at once) or "Exception" (the
\* exception of a callback).
acquire_lock(s, agent_name, tool_name, priority, timeout_arg, owner_thread_id) ==
    LET r == acquire_lock_locked(s, agent_name, tool_name, priority, timeout_arg,
                                 owner_thread_id)
        s1 == IF r.event = <<>> THEN r.s ELSE record_lock_event(r.s, r.event[1], FALSE)
    IN [s |-> s1,
        outcome |-> IF s1.raised THEN "Exception"
                    ELSE IF r.event = <<>> THEN "TimeoutError" ELSE "returned",
        lock_id |-> r.lock_id, request |-> r.request]

AcquireLock(agent_name, tool_name, priority, timeout_arg, owner_thread_id, max_uuid) ==
    LET r == acquire_lock(State, agent_name, tool_name, priority, timeout_arg,
                          owner_thread_id)
    IN
    /\ locks_lock = "free"
    /\ uuid_count + 2 <= max_uuid
    /\ Becomes(r.s)
    /\ last' = IF r.request # <<>>
               THEN [op |-> "acquire", outcome |-> r.outcome, lock_id |-> r.lock_id,
                     request |-> r.request[1], at |-> now,
                     owner_thread_id |-> owner_thread_id]
               ELSE [op |-> "acquire", outcome |-> r.outcome, lock_id |-> r.lock_id]
    /\ UNCHANGED <<in_flight, locks_lock, now, config, threads, host>>

\* calls: the (agent_name, tool_name) pairs the callers ask for.
Acquire(calls, priorities, timeouts, max_uuid) ==
    \E call \in calls, priority \in priorities, timeout_arg \in timeouts,
       owner_thread_id \in OwnerThreads :
        AcquireLock(call[1], call[2], priority, timeout_arg, owner_thread_id, max_uuid)

\* Every lock id a caller can know: the uuids drawn so far.
LockIds == 1..uuid_count

ReleaseLock(lock_id) ==
    LET r == release_lock(State, lock_id) IN
    /\ locks_lock = "free"
    /\ Becomes(r.s)
    /\ last' = [op |-> "release",
                outcome |-> IF r.s.raised THEN "Exception" ELSE "returned",
                ret |-> r.ret, lock |-> r.lock, promoted |-> r.promoted]
    /\ UNCHANGED <<in_flight, locks_lock, now, config, threads, host>>

Release == \E lock_id \in LockIds : ReleaseLock(lock_id)

\* override_lock(lock_id, reason).  With the lock found, release_lock is awaited
\* while _locks_lock, a threading.Lock, is held: release_lock blocks on it, the
\* call never returns and _locks_lock is never released.
OverrideLock(lock_id) ==
    /\ locks_lock = "free"
    /\ IF FindLock(locks_by_agent, lock_id) # <<>>
       THEN /\ locks_lock' = "override_lock"
            /\ last' = [op |-> "override", held |-> TRUE, lock_id |-> lock_id,
                        outcome |-> "blocked"]
       ELSE /\ locks_lock' = locks_lock
            /\ last' = [op |-> "override", held |-> FALSE, outcome |-> "returned",
                        ret |-> FALSE]
    /\ recorded' = <<>>
    /\ UNCHANGED <<locks_by_agent, wait_for_graph, lock_history, conflict_history,
                   event_callbacks, in_flight, uuid_count, now, config, threads, host>>

Override == \E lock_id \in LockIds : OverrideLock(lock_id)

DetectDeadlocks ==
    \E iteration_order \in IterationOrders :
        LET r == detect_deadlocks(State, iteration_order) IN
        /\ locks_lock = "free"
        /\ Becomes(r.s)
        /\ last' = [op |-> "detect_deadlocks", deadlocks |-> r.deadlocks]
        /\ UNCHANGED <<in_flight, locks_lock, now, config, threads, host>>

\* The cycles a caller passes to resolve_deadlock.
Cycles ==
    {<<a, a>> : a \in Agents} \cup {<<c[1], c[2], c[1]>> : c \in {p \in Agents \X Agents : p[1] # p[2]}}

TwoAgentCycles == {c \in Cycles : Len(c) = 3}

\* resolve_deadlock reads victim_lock_id under the manual strategy only, and under
\* that strategy it does not read the cycle.
ResolveDeadlock(strategies, cycles) ==
    \E strategy \in strategies :
    \E cycle \in IF strategy = "manual" THEN {<<"A", "A">>} ELSE cycles :
    \E victim_lock_id \in IF strategy = "manual" THEN {0} \cup LockIds ELSE {0} :
        \E r \in resolve_deadlock(State, cycle, strategy, victim_lock_id) :
            /\ locks_lock = "free"
            /\ Becomes(r.s)
            /\ last' = [op |-> "resolve_deadlock", cycle |-> cycle, strategy |-> strategy,
                        ret |-> r.ret, victim |-> r.victim]
            /\ UNCHANGED <<in_flight, locks_lock, now, config, threads, host>>

\* One pass of monitor_loop: detect_deadlocks, then resolve_deadlock(deadlock.cycle)
\* for each deadlock when auto-resolution is enabled.
RECURSIVE resolve_all(_, _)
resolve_all(s, deadlocks) ==
    IF deadlocks = <<>> THEN {s}
    ELSE UNION {resolve_all(r.s, Tail(deadlocks)) :
                   r \in resolve_deadlock(s, Head(deadlocks).cycle, None, 0)}

MonitorTick ==
    \E iteration_order \in IterationOrders :
        LET r == detect_deadlocks(State, iteration_order) IN
        /\ locks_lock = "free"
        /\ \E s \in (IF r.deadlocks # <<>> /\ enable_auto_resolution
                     THEN resolve_all(r.s, r.deadlocks) ELSE {r.s}) : Becomes(s)
        /\ last' = [op |-> "monitor_tick", deadlocks |-> r.deadlocks]
        /\ UNCHANGED <<in_flight, locks_lock, now, config, threads, host>>

\* ------------------------------------- start_monitoring, stop_monitoring
\* The task after a pass made without try/except: an exception ends it.
monitor_loop_uncaught(raised) == IF raised THEN "failed" ELSE "sleeping"

\* The task after a pass of monitor_loop: 'except Exception: pass', then
\* 'await asyncio.sleep(interval)'.
monitor_loop_caught(raised) == "sleeping"

StartMonitoring ==
    /\ IF running
       THEN UNCHANGED <<running, monitor_task>>
       ELSE /\ running' = TRUE
            /\ monitor_task' = "sleeping"
    /\ recorded' = <<>>
    /\ last' = [op |-> "start_monitoring"]
    /\ UNCHANGED <<locks_by_agent, wait_for_graph, lock_history, conflict_history,
                   event_callbacks, in_flight, locks_lock, uuid_count, now, config,
                   threads, ticks, singleton, frontend>>

StopMonitoring ==
    /\ running' = FALSE
    /\ monitor_task' = IF monitor_task = "sleeping" THEN "cancelled" ELSE monitor_task
    /\ recorded' = <<>>
    /\ last' = [op |-> "stop_monitoring"]
    /\ UNCHANGED <<locks_by_agent, wait_for_graph, lock_history, conflict_history,
                   event_callbacks, in_flight, locks_lock, uuid_count, now, config,
                   threads, ticks, singleton, frontend>>

\* One pass of the while loop of monitor_loop, with its try/except and its sleep.
\* fault tells where an Exception is raised in the pass: in detect_deadlocks
\* before it has changed anything ("detection"), in the first resolve_deadlock
\* ("resolution"), or nowhere ("none").
MonitorLoopPass(fault) ==
    \E iteration_order \in IterationOrders :
        LET r == detect_deadlocks(State, iteration_order)
            resolving == r.deadlocks # <<>> /\ enable_auto_resolution
        IN
        /\ running
        /\ monitor_task = "sleeping"
        /\ locks_lock = "free"
        /\ ticks' = 1 - ticks
        /\ monitor_task' = monitor_loop_caught(fault # "none")
        /\ fault = "resolution" => resolving
        /\ \E s \in (CASE fault = "detection" -> {State}
                        [] fault = "resolution" -> {r.s}
                        [] OTHER -> IF resolving THEN resolve_all(r.s, r.deadlocks)
                                    ELSE {r.s}) : Becomes(s)
        /\ last' = [op |-> "monitor_loop", fault |-> fault,
                    deadlocks |-> IF fault = "detection" THEN <<>> ELSE r.deadlocks]
        /\ UNCHANGED <<in_flight, locks_lock, now, config, threads, running, singleton, frontend>>

MonitorLoop ==
    \/ MonitorLoopPass("detection")
    \/ MonitorLoopPass("none")
    \/ MonitorLoopPass("resolution")

\* ------------------------------------ get_lock_history, get_conflict_history
\* seq[start:] of Python: a negative start counts from the end, and both ends
\* are clipped to the list.
SliceFrom(seq, start) ==
    LET from == IF start < 0
                THEN (IF Len(seq) + start < 0 THEN 0 ELSE Len(seq) + start)
                ELSE (IF start > Len(seq) THEN Len(seq) ELSE start)
    IN SubSeq(seq, from + 1, Len(seq))

\* list(self.lock_history)[-limit:]
get_lock_history(s, limit) == SliceFrom(s.lock_history, 0 - limit)
\* list(self.conflict_history)[-limit:]
get_conflict_history(s, limit) == SliceFrom(s.conflict_history, 0 - limit)

\* The limits a caller passes.
Limits == 0..(HistorySize + 1)

GetLockHistory(limit) ==
    /\ recorded' = <<>>
    /\ last' = [op |-> "get_lock_history", limit |-> limit,
                ret |-> get_lock_history(State, limit)]
    /\ UNCHANGED <<locks_by_agent, wait_for_graph, lock_history, conflict_history,
                   event_callbacks, in_flight, locks_lock, uuid_count, now, config,
                   threads, host>>

GetConflictHistory(limit) ==
    /\ recorded' = <<>>
    /\ last' = [op |-> "get_conflict_history", limit |-> limit,
                ret |-> get_conflict_history(State, limit)]
    /\ UNCHANGED <<locks_by_agent, wait_for_graph, lock_history, conflict_history,
                   event_callbacks, in_flight, locks_lock, uuid_count, now, config,
                   threads, host>>

\* ------------------------------------ POST /concurrency/deadlocks/resolve
\* strategy_map.get(request.strategy, DeadlockResolutionStrategy.PRIORITY_BASED)
strategy_map_get(strategy) == IF strategy \in Strategies THEN strategy ELSE "priority"

\* The endpoint: status is 200, or 400 when resolve_deadlock returns False.
ResolveDeadlockEndpoint(cycle, strategy, victim_lock_id) ==
    \E r \in resolve_deadlock(State, cycle, strategy_map_get(strategy), victim_lock_id) :
        /\ locks_lock = "free"
        /\ Becomes(r.s)
        /\ last' = [op |-> "resolve_deadlock_endpoint", cycle |-> cycle,
                    strategy |-> strategy, status |-> IF r.ret THEN 200 ELSE 400,
                    victim |-> r.victim]
        /\ UNCHANGED <<in_flight, locks_lock, now, config, threads, host>>

\* The strategy strings of the requests: one of the map, and one that is not.
RequestStrategies == {"oldest", "fastest"}

\* -------------------------------------------------- the singleton instance
manager_state == <<locks_by_agent, wait_for_graph, lock_history, conflict_history,
                   event_callbacks, recorded, in_flight, locks_lock, analytics_lock,
                   uuid_count, now, config, running, monitor_task, ticks>>

\* Entering the with-block with no mutex: every thread gets in.
enter_unlocked(lock, thread) == {thread}

\* 'with _manager_lock': the values of the mutex after the thread acquired it;
\* none while another thread holds it.
enter_manager_lock(lock, thread) == IF lock = "free" THEN {thread} ELSE {}

\* get_global_concurrency_manager: 'with _manager_lock:'
GetManagerEnter(thread) ==
    /\ pc[thread].at = "idle"
    /\ instances < MaxInstances
    /\ manager_lock' \in enter_manager_lock(manager_lock, thread)
    /\ pc' = [pc EXCEPT ![thread] = [at |-> "get_938"]]
    /\ last' = [op |-> "get_manager_enter", thread |-> thread]
    /\ UNCHANGED <<manager_state, frontend, global_manager, instances, created, returned>>

\* 'if _global_manager is None:'
GetManagerTest(thread) ==
    /\ pc[thread].at = "get_938"
    /\ pc' = [pc EXCEPT ![thread] = [at |-> "get_939", is_none |-> global_manager = 0]]
    /\ last' = [op |-> "get_manager_test", thread |-> thread]
    /\ UNCHANGED <<manager_state, frontend, singleton>>

\* '_global_manager = GlobalConcurrencyManager()' when the test held, then
\* 'return _global_manager', which leaves the with-block.
GetManagerReturn(thread) ==
    /\ pc[thread].at = "get_939"
    /\ IF pc[thread].is_none
       THEN /\ global_manager' = instances + 1
            /\ instances' = instances + 1
            /\ created' = created + 1
       ELSE UNCHANGED <<global_manager, instances, created>>
    /\ returned' = returned \cup {<<thread, global_manager'>>}
    /\ manager_lock' = "free"
    /\ pc' = [pc EXCEPT ![thread] = [at |-> "idle"]]
    /\ last' = [op |-> "get_global_concurrency_manager", thread |-> thread,
                ret |-> global_manager']
    /\ UNCHANGED <<manager_state, frontend>>

\* reset_global_concurrency_manager: 'with _manager_lock:'
ResetManagerEnter(thread) ==
    /\ pc[thread].at = "idle"
    /\ manager_lock' \in enter_manager_lock(manager_lock, thread)
    /\ pc' = [pc EXCEPT ![thread] = [at |-> "reset_948"]]
    /\ last' = [op |-> "reset_manager_enter", thread |-> thread]
    /\ UNCHANGED <<manager_state, frontend, global_manager, instances, created, returned>>

\* '_global_manager = None', and the with-block is left.
ResetManagerReturn(thread) ==
    /\ pc[thread].at = "reset_948"
    /\ global_manager' = 0
    /\ created' = 0
    /\ returned' = {}
    /\ manager_lock' = "free"
    /\ pc' = [pc EXCEPT ![thread] = [at |-> "idle"]]
    /\ last' = [op |-> "reset_global_concurrency_manager", thread |-> thread]
    /\ UNCHANGED <<manager_state, frontend, instances>>

\* ------------------------------------------- the WebSocket front end
WebSockets == {"w1", "w2"}

\* ConnectionManager.broadcast(message): send_json(message) on every connection.
broadcast(connections, message) ==
    [i \in 1..Len(connections) |-> <<connections[i], message>>]

\* The messages sent for one recorded event: every call of an event_callback
\* closure among the callbacks called broadcasts the event.
RECURSIVE Broadcasts(_, _, _)
Broadcasts(delivered, connections, message) ==
    IF delivered = <<>> THEN <<>>
    ELSE (IF Head(delivered) = "event_callback"
          THEN broadcast(connections, message) ELSE <<>>)
         \o Broadcasts(Tail(delivered), connections, message)

\* concurrency_websocket up to its receive loop: ws_manager.connect(websocket),
\* then setup_concurrency_websocket(), which registers a new event_callback
\* closure with the manager.
WsConnect(websocket) ==
    /\ \A i \in 1..Len(active_connections) : active_connections[i] # websocket
    /\ Len(event_callbacks) < MaxCallbacks
    /\ active_connections' = Append(active_connections, websocket)
    /\ event_callbacks' = Append(event_callbacks, "event_callback")
    /\ recorded' = <<>>
    /\ last' = [op |-> "ws_connect", websocket |-> websocket]
    /\ UNCHANGED <<locks_by_agent, wait_for_graph, lock_history, conflict_history,
                   in_flight, locks_lock, uuid_count, now, config, threads,
                   running, monitor_task, ticks, singleton>>

\* WebSocketDisconnect in the receive loop: ws_manager.disconnect(websocket).
WsDisconnect(websocket) ==
    /\ \E i \in 1..Len(active_connections) : active_connections[i] = websocket
    /\ active_connections' = SelectSeq(active_connections, LAMBDA w : w # websocket)
    /\ recorded' = <<>>
    /\ last' = [op |-> "ws_disconnect", websocket |-> websocket]
    /\ UNCHANGED <<locks_by_agent, wait_for_graph, lock_history, conflict_history,
                   event_callbacks, in_flight, locks_lock, uuid_count, now, config,
                   threads, running, monitor_task, ticks, singleton>>

\* register_callback(callback)
RegisterCallback(callback) ==
    /\ Len(event_callbacks) < MaxCallbacks
    /\ event_callbacks' = Append(event_callbacks, callback)
    /\ recorded' = <<>>
    /\ last' = [op |-> "register_callback"]
    /\ UNCHANGED <<locks_by_agent, wait_for_graph, lock_history, conflict_history,
                   in_flight, locks_lock, uuid_count, now, config, threads, host>>

Register == \E callback \in Callbacks : RegisterCallback(callback)

\* ---------------------------------------------- calls from several threads
\* A thread runs the with-block of acquire_lock, and leaves it: the "acquired"
\* event it has still to record is in flight.
AcquireWithBlock(agent_name, tool_name, priority, timeout_arg, owner_thread_id, max_uuid) ==
    LET r == acquire_lock_locked(State, agent_name, tool_name, priority, timeout_arg,
                                 owner_thread_id)
    IN
    /\ locks_lock = "free"
    /\ uuid_count + 2 <= max_uuid
    /\ Becomes(r.s)
    /\ in_flight' = in_flight \cup {r.event[i] : i \in 1..Len(r.event)}
    /\ last' = [op |-> "acquire_with_block", lock_id |-> r.lock_id]
    /\ UNCHANGED <<locks_lock, now, config, threads, host>>

AcquireThreads(calls, priorities, timeouts, max_uuid) ==
    \E call \in calls, priority \in priorities, timeout_arg \in timeouts,
       owner_thread_id \in OwnerThreads :
        AcquireWithBlock(call[1], call[2], priority, timeout_arg, owner_thread_id,
                         max_uuid)

\* A thread runs the with-block of release_lock.  The lock ids of the table are
\* known to every thread, from get_active_locks.
ReleaseWithBlock(lock_id) ==
    LET r == release_lock_locked(State, lock_id) IN
    /\ locks_lock = "free"
    /\ Becomes(r.s)
    /\ in_flight' = in_flight \cup (IF r.found THEN {ReleasedEvent(r.lock[1])} ELSE {})
    /\ last' = [op |-> "release_with_block", found |-> r.found]
    /\ UNCHANGED <<locks_lock, now, config, threads, host>>

ReleaseThreads == \E lock_id \in LockIds : ReleaseWithBlock(lock_id)

\* A thread that left its with-block goes on: it records its event.
RecordAfterBlock ==
    \E event \in in_flight :
        /\ Becomes(record_lock_event(State, event, FALSE))
        /\ in_flight' = in_flight \ {event}
        /\ last' = [op |-> "record_after_block", lock_id |-> event.lock_id]
        /\ UNCHANGED <<locks_lock, now, config, threads, host>>

\* ------------------------------------------ the DeadlockDetector on its own
\* The agent names given to the detector; it accepts any string.
GraphAgents == Agents \cup {"C"}
GraphIterationOrders ==
    {o \in [1..Cardinality(GraphAgents) -> GraphAgents] :
        \A i, j \in DOMAIN o : o[i] = o[j] => i = j}

\* deadlock_detector.update_wait_for_graph(waiting_agent, blocking_agent)
UpdateWaitForGraph(waiting_agent, blocking_agent) ==
    /\ wait_for_graph' = update_wait_for_graph(wait_for_graph, waiting_agent, blocking_agent)
    /\ last' = [op |-> "update_wait_for_graph"]
    /\ UNCHANGED <<locks_by_agent, lock_history, conflict_history, event_callbacks,
                   recorded, in_flight, locks_lock, uuid_count, now, config, threads, host>>

\* deadlock_detector.remove_from_graph(agent)
RemoveFromGraph(agent) ==
    /\ wait_for_graph' = remove_from_graph(wait_for_graph, agent)
    /\ last' = [op |-> "remove_from_graph"]
    /\ UNCHANGED <<locks_by_agent, lock_history, conflict_history, event_callbacks,
                   recorded, in_flight, locks_lock, uuid_count, now, config, threads, host>>

\* deadlock_detector.detect_cycles()
DetectCycles ==
    \E iteration_order \in GraphIterationOrders :
        /\ last' = [op |-> "detect_cycles",
                    cycles |-> detect_cycles(wait_for_graph, iteration_order)]
        /\ UNCHANGED <<locks_by_agent, wait_for_graph, lock_history, conflict_history,
                       event_callbacks, recorded, in_flight, locks_lock, uuid_count,
                       now, config, threads, host>>

\* ------------------------------- release_lock and get_analytics on threads
\* agent_counts of _get_analytics_data: a dict agent -> number of its locks, in
\* the order of the lock table.
RECURSIVE agent_counts(_, _)
agent_counts(locks, counts) ==
    IF locks = <<>> THEN counts
    ELSE LET agent == locks[1][2].agent_name IN
         agent_counts(Tail(locks),
             DictSet(counts, agent,
                     (IF DictHas(counts, agent) THEN DictGet(counts, agent) ELSE 0) + 1))

\* sorted(items, key=lambda x: x[1], reverse=True): stable, largest count first.
RECURSIVE sorted_by_count(_)
sorted_by_count(items) ==
    IF items = <<>> THEN <<>>
    ELSE LET i == CHOOSE i \in 1..Len(items) :
                      /\ \A j \in 1..Len(items) : items[j][2] <= items[i][2]
                      /\ \A j \in 1..(i - 1) : items[j][2] < items[i][2]
         IN <<items[i]>> \o
            sorted_by_count(SubSeq(items, 1, i - 1) \o SubSeq(items, i + 1, Len(items)))

\* _get_analytics_data, without the hotspots and the average duration.
get_analytics_data(s) ==
    [total_locks_acquired |-> Len(s.lock_history),
     total_locks_released |->
         Len(SelectSeq(s.lock_history,
                       LAMBDA e : e.event_type \in {"released", "overridden"})),
     conflicts_detected |-> Len(s.conflict_history),
     deadlocks_resolved |-> Len(SelectSeq(s.conflict_history, LAMBDA c : c.auto_resolved)),
     most_locked_agents |-> sorted_by_count(agent_counts(s.locks_by_agent, <<>>))]

\* release_lock enters 'with self._locks_lock' and looks for the lock: not found,
\* it returns False; found, it goes on to 'with self._analytics_lock' (line 611)
\* holding _locks_lock.
ReleaseLockEnter(thread, lock_id) ==
    /\ pc[thread].at = "idle"
    /\ locks_lock = "free"
    /\ IF FindLock(locks_by_agent, lock_id) = <<>>
       THEN /\ UNCHANGED <<locks_lock, pc>>
            /\ last' = [op |-> "release_lock", thread |-> thread, ret |-> FALSE]
       ELSE /\ locks_lock' = thread
            /\ pc' = [pc EXCEPT ![thread] = [at |-> "release_611", lock_id |-> lock_id]]
            /\ last' = [op |-> "release_lock_enter", thread |-> thread]
    /\ recorded' = <<>>
    /\ UNCHANGED <<locks_by_agent, wait_for_graph, lock_history, conflict_history,
                   event_callbacks, in_flight, analytics_lock, uuid_count, now, config, host>>

\* The thread gets _analytics_lock, appends the duration and gives it back, runs
\* the rest of the with-block and leaves it.
ReleaseLockBlock(thread) ==
    /\ pc[thread].at = "release_611"
    /\ analytics_lock = "free"
    /\ LET r == release_lock_locked(State, pc[thread].lock_id) IN
       /\ Becomes(r.s)
       /\ pc' = [pc EXCEPT ![thread] = [at |-> "release_654", lock |-> r.lock[1]]]
    /\ locks_lock' = "free"
    /\ last' = [op |-> "release_lock_block", thread |-> thread]
    /\ UNCHANGED <<in_flight, analytics_lock, now, config, host>>

\* The thread records the "released" event.
ReleaseLockRecord(thread) ==
    /\ pc[thread].at = "release_654"
    /\ Becomes(record_lock_event(State, ReleasedEvent(pc[thread].lock), FALSE))
    /\ pc' = [pc EXCEPT ![thread] = [at |-> "release_666"]]
    /\ last' = [op |-> "release_lock_record", thread |-> thread]
    /\ UNCHANGED <<in_flight, locks_lock, analytics_lock, now, config, host>>

\* 'with self._analytics_lock: self._update_analytics()', and return True.
ReleaseLockReturn(thread) ==
    /\ pc[thread].at = "release_666"
    /\ analytics_lock = "free"
    /\ pc' = [pc EXCEPT ![thread] = [at |-> "idle"]]
    /\ recorded' = <<>>
    /\ last' = [op |-> "release_lock", thread |-> thread, ret |-> TRUE]
    /\ UNCHANGED <<locks_by_agent, wait_for_graph, lock_history, conflict_history,
                   event_callbacks, in_flight, locks_lock, analytics_lock, uuid_count,
                   now, config, host>>

\* get_analytics enters 'with self._analytics_lock' and calls _get_analytics_data.
GetAnalyticsEnter(thread) ==
    /\ pc[thread].at = "idle"
    /\ analytics_lock = "free"
    /\ analytics_lock' = thread
    /\ pc' = [pc EXCEPT ![thread] = [at |-> "analytics_851"]]
    /\ recorded' = <<>>
    /\ last' = [op |-> "get_analytics_enter", thread |-> thread]
    /\ UNCHANGED <<locks_by_agent, wait_for_graph, lock_history, conflict_history,
                   event_callbacks, in_flight, locks_lock, uuid_count, now, config, host>>

\* _get_analytics_data gets _locks_lock, reads the lock table and gives it back;
\* get_analytics returns the data and gives _analytics_lock back.
GetAnalyticsData(thread) ==
    /\ pc[thread].at = "analytics_851"
    /\ locks_lock = "free"
    /\ analytics_lock' = "free"
    /\ pc' = [pc EXCEPT ![thread] = [at |-> "idle"]]
    /\ recorded' = <<>>
    /\ last' = [op |-> "get_analytics", thread |-> thread,
                ret |-> get_analytics_data(State)]
    /\ UNCHANGED <<locks_by_agent, wait_for_graph, lock_history, conflict_history,
                   event_callbacks, in_flight, locks_lock, uuid_count, now, config, host>>

AllCalls == Agents \X Tools
\* The two calls whose lock_key is the same string, "A:B:R".
SameKeyCalls == {<<"A", "B:R">>, <<"A:B", "R">>}

Next ==
    \/ Tick(MaxTime)
    \/ Acquire(AllCalls, Priorities, Timeouts, MaxUuid)
    \/ Release
    \/ Override

Spec == Init /\ [][Next]_vars

NextQueue ==
    \/ Tick(MaxTime)
    \/ Acquire(SameKeyCalls, Priorities, Timeouts, MaxUuid)
    \/ Release
    \/ Override

SpecQueue == Init /\ [][NextQueue]_vars

NextResolve ==
    \/ Acquire(SameKeyCalls \cup {<<"A:B", "B:R">>}, {7}, {0}, MaxUuid - 1)
    \/ Release
    \/ Override
    \/ ResolveDeadlock({"random", "manual"}, Cycles)

SpecResolve == Init /\ [][NextResolve]_vars

NextMonitor ==
    \/ Tick(MaxTime)
    \/ Acquire(AllCalls, Priorities, Timeouts, MaxUuid)
    \/ DetectDeadlocks
    \/ MonitorTick

SpecMonitor == Init /\ [][NextMonitor]_vars

\* Acquires that build self-loops and an edge between two actors, and the
\* monitor.  Three self-loops and edges take more uuids than MaxUuid.
NextMonitorCycles ==
    \/ Acquire({<<"A:B", "R">>, <<"A", "B:R">>, <<"A", "R">>}, {7}, {0}, MaxUuid + 3)
    \/ MonitorTick

SpecMonitorCycles == Init /\ [][NextMonitorCycles]_vars

NextGraph ==
    \/ \E waiting_agent, blocking_agent \in GraphAgents :
           UpdateWaitForGraph(waiting_agent, blocking_agent)
    \/ \E agent \in GraphAgents : RemoveFromGraph(agent)
    \/ DetectCycles

SpecGraph == Init /\ [][NextGraph]_vars

\* Acquires and releases, and both detections.
NextDetect ==
    \/ Acquire(SameKeyCalls \cup {<<"A:B", "B:R">>}, {7}, {0}, MaxUuid)
    \/ Release
    \/ DetectCycles
    \/ DetectDeadlocks

SpecDetect == Init /\ [][NextDetect]_vars

\* Two agents that acquire at different times and priorities, and the three
\* strategies that order locks.
NextStrategies ==
    \/ Tick(MaxTime)
    \/ Acquire({<<"A", "R">>, <<"A:B", "R">>}, Priorities, {0}, MaxUuid - 2)
    \/ ResolveDeadlock({"priority", "youngest", "oldest"}, TwoAgentCycles)

SpecStrategies == Init /\ [][NextStrategies]_vars

\* detect_deadlocks, and resolve_deadlock(cycle), the call of monitor_loop: no
\* strategy and no victim.
NextStaleCycle ==
    \/ Acquire(SameKeyCalls \cup {<<"A:B", "B:R">>}, {7}, {0}, MaxUuid - 1)
    \/ Release
    \/ DetectDeadlocks
    \/ ResolveDeadlock({None}, Cycles)

SpecStaleCycle == Init /\ [][NextStaleCycle]_vars

\* release_lock and get_analytics on two threads; acquire_lock runs from start
\* to end while no thread holds _analytics_lock, which it takes before it returns.
NextAnalytics ==
    \/ analytics_lock = "free" /\ Acquire(SameKeyCalls, {7}, {0}, MaxUuid - 1)
    \/ \E thread \in Threads, lock_id \in LockIds : ReleaseLockEnter(thread, lock_id)
    \/ \E thread \in Threads : ReleaseLockBlock(thread)
    \/ \E thread \in Threads : ReleaseLockRecord(thread)
    \/ \E thread \in Threads : ReleaseLockReturn(thread)
    \/ \E thread \in Threads : GetAnalyticsEnter(thread)
    \/ \E thread \in Threads : GetAnalyticsData(thread)

SpecAnalytics == Init /\ [][NextAnalytics]_vars

\* The monitor started and stopped by the host, with acquires that build cycles.
\* The sleep of monitor_loop ends: a pass that can be made is made.
NextMonitorLoop ==
    \/ Acquire(SameKeyCalls, {7}, {0}, MaxUuid - 1)
    \/ StartMonitoring
    \/ StopMonitoring
    \/ MonitorLoop

SpecMonitorLoop == Init /\ [][NextMonitorLoop]_vars /\ WF_vars(MonitorLoop)

\* Calls that fill both histories, and the two history queries.
NextHistory ==
    \/ Acquire(SameKeyCalls, {7}, {0}, MaxUuid - 1)
    \/ Release
    \/ DetectDeadlocks
    \/ \E limit \in Limits : GetLockHistory(limit)
    \/ \E limit \in Limits : GetConflictHistory(limit)

SpecHistory == Init /\ [][NextHistory]_vars

\* Acquires, and resolve requests of the control plane.
NextEndpoint ==
    \/ Acquire(SameKeyCalls \cup {<<"A:B", "B:R">>}, {7}, {0}, MaxUuid - 1)
    \/ \E cycle \in Cycles, strategy \in RequestStrategies :
           ResolveDeadlockEndpoint(cycle, strategy, 0)

SpecEndpoint == Init /\ [][NextEndpoint]_vars

\* get_global_concurrency_manager and reset_global_concurrency_manager called
\* from two threads.
NextSingleton ==
    \/ \E thread \in Threads : GetManagerEnter(thread)
    \/ \E thread \in Threads : GetManagerTest(thread)
    \/ \E thread \in Threads : GetManagerReturn(thread)
    \/ \E thread \in Threads : ResetManagerEnter(thread)
    \/ \E thread \in Threads : ResetManagerReturn(thread)

SpecSingleton == Init /\ [][NextSingleton]_vars

\* WebSocket clients that connect and disconnect while locks are acquired and
\* released.
NextFrontend ==
    \/ \E websocket \in WebSockets : WsConnect(websocket)
    \/ \E websocket \in WebSockets : WsDisconnect(websocket)
    \/ Acquire(SameKeyCalls, {7}, {0}, MaxUuid - 1)
    \/ Release

SpecFrontend == Init /\ [][NextFrontend]_vars

\* Acquires and releases on two keys, one of them shared by two callers.
NextTable ==
    \/ Acquire(SameKeyCalls \cup {<<"A:B", "B:R">>}, {7}, {0}, MaxUuid)
    \/ Release

SpecTable == Init /\ [][NextTable]_vars

NextCallbacks ==
    \/ Register
    \/ Acquire(SameKeyCalls, {7}, {0}, MaxUuid)
    \/ Release

SpecCallbacks == Init /\ [][NextCallbacks]_vars

NextThreads ==
    \/ AcquireThreads(SameKeyCalls, {7}, {0}, MaxUuid - 1)
    \/ ReleaseThreads
    \/ RecordAfterBlock
    \/ Override

SpecThreads == Init /\ [][NextThreads]_vars

\* ------------------------------------------------------------ properties
Locks == DictValues(locks_by_agent)
Held(lock_id) == \E l \in Locks : l.lock_id = lock_id
Holds(agent_name, tool_name) ==
    \E l \in Locks : l.agent_name = agent_name /\ l.tool_name = tool_name
PendingRequests ==
    UNION {{l.waiting_queue[i] : i \in 1..Len(l.waiting_queue)} : l \in Locks}
\* An acquire call for (agent_name, tool_name) was made and has not been undone:
\* it left a lock or a pending request.
Requested(agent_name, tool_name) ==
    \/ Holds(agent_name, tool_name)
    \/ \E r \in PendingRequests : r.agent_name = agent_name /\ r.tool_name = tool_name
Edges == {<<x, y>> \in Agents \X Agents : y \in GraphGet(wait_for_graph, x)}
\* Some pending request of x is queued on a lock held by y.
WaitsOn(x, y) ==
    \E l \in Locks : l.agent_name = y /\
        \E i \in 1..Len(l.waiting_queue) : l.waiting_queue[i].agent_name = x
Released == last.op = "release" /\ last.ret
Promoted == Released /\ last.promoted # <<>>
TimedOut == last.op = "acquire" /\ last.outcome = "TimeoutError"

\* C1: a resource is held by at most one actor at a time: no two locks of the lock
\* table are on the same resource.
C1_OneHolderPerResource ==
    \A l1, l2 \in Locks : l1.tool_name = l2.tool_name => l1 = l2

\* C2: when A holds R1, B holds R2, A has asked for R2 and B for R1, a detection
\* reports a cycle that contains both A and B.
C2_CrossRequestsReported ==
    \A a, b \in Agents, r1, r2 \in Tools :
        (/\ a # b /\ r1 # r2
         /\ last.op \in {"detect_deadlocks", "monitor_tick"}
         /\ Holds(a, r1) /\ Holds(b, r2)
         /\ Requested(a, r2) /\ Requested(b, r1))
        => \E i \in 1..Len(last.deadlocks) :
               LET cycle == last.deadlocks[i].cycle IN
               /\ \E k \in 1..Len(cycle) : cycle[k] = a
               /\ \E k \in 1..Len(cycle) : cycle[k] = b

\* C3: the request a release promotes has the smallest priority value of the
\* waiting queue and, among the requests of that priority, was enqueued first
\* and has the smallest requested_at.
C3_PromotionOrder ==
    Promoted =>
        LET queue == last.lock[1].waiting_queue
            p == CHOOSE i \in 1..Len(queue) : queue[i] = last.promoted[1]
        IN /\ \E i \in 1..Len(queue) : queue[i] = last.promoted[1]
           /\ \A j \in 1..Len(queue) :
                  \/ queue[p].priority < queue[j].priority
                  \/ /\ queue[p].priority = queue[j].priority
                     /\ p <= j
                     /\ queue[p].requested_at <= queue[j].requested_at

\* A release has promoted a priority-3 request that was enqueued, at a later
\* time, behind a priority-7 request.
C3_Witness ==
    /\ Promoted
    /\ last.promoted[1].priority = 3
    /\ \E j \in 1..Len(last.lock[1].waiting_queue) :
           LET r == last.lock[1].waiting_queue[j] IN
           /\ r.priority = 7
           /\ r.requested_at < last.promoted[1].requested_at
           /\ r.request_id < last.promoted[1].request_id

\* C4: when a release promotes a waiter, every other waiter of the released lock
\* is still queued, on the lock that took its slot.
C4_OtherWaitersKept ==
    Promoted =>
        \A j \in 1..Len(last.lock[1].waiting_queue) :
            LET r == last.lock[1].waiting_queue[j] IN
            r # last.promoted[1] =>
                \E l \in Locks :
                    /\ l.agent_name = last.promoted[1].agent_name
                    /\ l.tool_name = last.promoted[1].tool_name
                    /\ \E i \in 1..Len(l.waiting_queue) : l.waiting_queue[i] = r

\* C5: an acquire on a held key does not end with TimeoutError before its
\* timeout has elapsed.
C5_NoTimeoutBeforeDeadline ==
    TimedOut => last.at >= last.request.requested_at + last.request.timeout_seconds

\* C6: when acquire ends with TimeoutError its pending request is in no waiting
\* queue, and no wait-for edge is left that only this request accounts for.
C6_TimeoutRemovesRequest ==
    TimedOut =>
        /\ last.request \notin PendingRequests
        /\ \A y \in Agents :
               <<last.request.agent_name, y>> \in Edges
                   => WaitsOn(last.request.agent_name, y)

\* C7: override_lock called with the lock_id of a held lock returns True, and the
\* lock_id is then no longer held.
C7_OverrideReturnsTrue ==
    (last.op = "override" /\ last.held) =>
        /\ last.outcome = "returned"
        /\ last.ret
        /\ ~Held(last.lock_id)

\* C8: the lock table holds at most one lock for every (actor, resource) pair.
C8_OneLockPerActorAndResource ==
    \A i, j \in 1..Len(locks_by_agent) :
        (/\ locks_by_agent[i][2].agent_name = locks_by_agent[j][2].agent_name
         /\ locks_by_agent[i][2].tool_name = locks_by_agent[j][2].tool_name)
        => i = j

\* resolve_deadlock has released a lock whose slot went to a waiter of another
\* actor, while a second lock is held.
C8_Witness ==
    /\ last.op = "resolve_deadlock" /\ last.ret
    /\ Len(locks_by_agent) = 2
    /\ \E l \in Locks : l.owner_thread_id = None /\ l.agent_name = "A"

\* C9: the wait-for graph has the edge x -> y exactly when a pending request of
\* x is queued on a lock held by y.
C9_EdgesMatchWaiters ==
    \A x, y \in Agents : (<<x, y>> \in Edges) <=> WaitsOn(x, y)

\* C10: the wait-for graph has no edge from an actor to itself.
C10_NoSelfLoop ==
    \A x \in Agents : <<x, x>> \notin Edges

\* C11: an acquire for the (actor, resource) of a lock whose owner_thread_id is
\* the caller's ends with ReentrantDenied, and leaves no pending request of the
\* caller and no wait-for edge from the caller to itself.
C11_ReentrantDenied ==
    \A l \in Locks :
        (/\ last.op = "acquire" /\ last.outcome # "returned"
         /\ l.agent_name = last.request.agent_name
         /\ l.tool_name = last.request.tool_name
         /\ l.owner_thread_id = last.owner_thread_id)
        => /\ last.outcome = "ReentrantDenied"
           /\ last.request \notin PendingRequests
           /\ <<l.agent_name, l.agent_name>> \notin Edges

\* C12: release_lock and override_lock called with a lock_id that is not held
\* (the id of a request, of a failed acquire or of a lock released before)
\* return False and leave the lock table, the wait-for graph and both histories
\* as they were; release_lock of a held lock_id returns True and the lock_id is
\* not held afterwards, so that a second release of it returns False.
C12_UnknownLockId ==
    [][\A lock_id \in LockIds :
          /\ (last'.op = "release" /\ ~Held(lock_id) /\ ReleaseLock(lock_id))
                 => /\ last'.outcome = "returned" /\ last'.ret = FALSE
                    /\ UNCHANGED <<locks_by_agent, wait_for_graph, lock_history,
                                   conflict_history>>
          /\ (last'.op = "override" /\ ~Held(lock_id) /\ OverrideLock(lock_id))
                 => /\ last'.outcome = "returned" /\ last'.ret = FALSE
                    /\ UNCHANGED <<locks_by_agent, wait_for_graph, lock_history,
                                   conflict_history>>
          /\ (last'.op = "release" /\ Held(lock_id) /\ ReleaseLock(lock_id))
                 => /\ last'.ret = TRUE
                    /\ (~Held(lock_id))'
      ]_vars

\* Lock 1, the only id issued, was released, and a second release has returned
\* False.
C12_Witness ==
    /\ last.op = "release" /\ last.ret = FALSE
    /\ uuid_count = 1
    /\ \E i \in 1..Len(lock_history) :
           lock_history[i].event_type = "released" /\ lock_history[i].lock_id = 1

KeySet == {locks_by_agent[i][1] : i \in 1..Len(locks_by_agent)}

\* C13: acquire_lock on a key that has no lock adds that key, and no other, to
\* the keys of the lock table, and release_lock of the returned lock_id, called
\* next, removes that key and no other: the key set is what it was before the
\* acquire.
C13_AcquireReleaseRoundTrip ==
    [][/\ (/\ last'.op = "acquire" /\ last'.outcome = "returned"
           /\ uuid_count' # uuid_count)
          => \E i \in 1..Len(locks_by_agent') :
                 /\ locks_by_agent'[i][2].lock_id = last'.lock_id
                 /\ locks_by_agent'[i][1] \notin KeySet
                 /\ KeySet' = KeySet \cup {locks_by_agent'[i][1]}
       /\ (/\ last.op = "acquire" /\ last.outcome = "returned"
           /\ last'.op = "release"
           /\ ReleaseLock(last.lock_id))
          => \E i \in 1..Len(locks_by_agent) :
                 /\ locks_by_agent[i][2].lock_id = last.lock_id
                 /\ locks_by_agent[i][1] \notin KeySet'
                 /\ KeySet' = KeySet \ {locks_by_agent[i][1]}
      ]_vars

\* A lock was acquired and released at once, while a lock on another key was
\* held.
C13_Witness ==
    /\ Released /\ last.promoted = <<>>
    /\ Len(locks_by_agent) = 1
    /\ Len(lock_history) = 2
    /\ lock_history[1].event_type = "acquired"
    /\ lock_history[2].event_type = "released"
    /\ lock_history[1].lock_id = lock_history[2].lock_id

\* The number of lock events of the given type and lock_id that the most recent
\* call recorded.
RecordedCount(event_type, lock_id) ==
    Cardinality({i \in 1..Len(recorded) :
                    /\ recorded[i].type = "lock_event"
                    /\ recorded[i].event_type = event_type
                    /\ recorded[i].lock_id = lock_id})

\* The lock events the most recent call recorded are the last ones of the lock
\* history, in the order they were recorded (the call recorded no more than the
\* history keeps).
RecordedInHistory ==
    LET lock_events == SelectSeq(recorded, LAMBDA r : r.type = "lock_event")
        offset == Len(lock_history) - Len(lock_events)
    IN /\ offset >= 0
       /\ \A k \in 1..Len(lock_events) :
              /\ lock_history[offset + k].event_type = lock_events[k].event_type
              /\ lock_history[offset + k].lock_id = lock_events[k].lock_id

\* C14: an acquire that returns lock_id records one "acquired" event with that
\* lock_id and no "acquired_from_queue" event; a release that returns True
\* records one "released" event with the released lock_id and, when it promotes
\* a request, one "acquired_from_queue" event with the lock_id of the promoted
\* lock; these events are appended to the lock history, which never holds two
\* events of one of these types with the same lock_id.
C14_OneEventPerAcquireAndRelease ==
    /\ (last.op = "acquire" /\ last.outcome = "returned")
       => /\ RecordedCount("acquired", last.lock_id) = 1
          /\ Len(recorded) = 1
          /\ RecordedInHistory
    /\ Released
       => /\ RecordedCount("released", last.lock[1].lock_id) = 1
          /\ Len(recorded) = IF last.promoted # <<>> THEN 2 ELSE 1
          /\ RecordedInHistory
    /\ Promoted
       => \E l \in Locks :
              /\ l.agent_name = last.promoted[1].agent_name
              /\ l.tool_name = last.promoted[1].tool_name
              /\ l.lock_id # last.lock[1].lock_id
              /\ RecordedCount("acquired_from_queue", l.lock_id) = 1
    /\ \A i, j \in 1..Len(lock_history) :
           (/\ lock_history[i].event_type
                   \in {"acquired", "acquired_from_queue", "released"}
            /\ lock_history[i].event_type = lock_history[j].event_type
            /\ lock_history[i].lock_id = lock_history[j].lock_id)
           => i = j

\* A release has promoted a request: it recorded two events.
C14_Witness ==
    /\ Promoted
    /\ Len(recorded) = 2
    /\ recorded[1].event_type = "acquired_from_queue"
    /\ recorded[2].event_type = "released"

\* C15: an acquire that ends with TimeoutError records one "timed_out" lock
\* event and one "timeout" conflict event.
C15_TimeoutEvents ==
    TimedOut =>
        /\ Cardinality({i \in 1..Len(recorded) :
               recorded[i].type = "lock_event"
                   /\ recorded[i].event_type = "timed_out"}) = 1
        /\ Cardinality({i \in 1..Len(recorded) :
               recorded[i].type = "conflict_event"
                   /\ recorded[i].event_type = "timeout"}) = 1

\* C16: override_lock of a held lock records one "overridden" event with the
\* lock_id, and no "released" event.
C16_OverriddenEvent ==
    (last.op = "override" /\ last.held) =>
        /\ RecordedCount("overridden", last.lock_id) = 1
        /\ RecordedCount("released", last.lock_id) = 0

\* C17: when a release promotes a waiter, the "released" event of the released
\* lock is in the lock history before the "acquired_from_queue" event of the
\* lock that took its slot.
C17_ReleasedBeforePromotion ==
    Promoted =>
        \E i, j \in 1..Len(lock_history) :
            /\ i < j
            /\ lock_history[i].event_type = "released"
            /\ lock_history[i].lock_id = last.lock[1].lock_id
            /\ lock_history[j].event_type = "acquired_from_queue"
            /\ lock_history[j].details.previous_lock_id = last.lock[1].lock_id

\* C18: for every lock_id, the lock history holds its "acquired" or
\* "acquired_from_queue" event before its "released" or "overridden" event.
C18_LifecycleOrder ==
    \A i, j \in 1..Len(lock_history) :
        (/\ lock_history[i].event_type \in {"released", "overridden"}
         /\ lock_history[j].event_type \in {"acquired", "acquired_from_queue"}
         /\ lock_history[i].lock_id = lock_history[j].lock_id)
        => j < i

\* C19: no callback is called while the caller of record_lock_event or
\* record_conflict_event holds _locks_lock.
C19_NoCallbackUnderLocksLock ==
    \A i \in 1..Len(recorded) :
        recorded[i].delivered # <<>> => ~recorded[i].locks_lock_held

\* The state without its registered callbacks.
WithoutCallbacks == [State EXCEPT !.event_callbacks = <<>>]

\* C20: with a callback registered that raises on every call, every event an
\* acquire or release records is appended to the lock history and is delivered
\* to every registered callback, and the call ends as it does, and leaves the
\* lock table, the wait-for graph and the histories as it does, when no callback
\* is registered.
C20_RaisingCallbackHarmless ==
    /\ []((\E k \in 1..Len(event_callbacks) : event_callbacks[k] = "raises")
          => /\ \A i \in 1..Len(recorded) : recorded[i].delivered = event_callbacks
             /\ RecordedInHistory
             /\ last.op \in {"acquire", "release"} => last.outcome # "Exception")
    /\ [][/\ \A call \in AllCalls, priority \in Priorities, timeout_arg \in Timeouts,
                owner_thread_id \in OwnerThreads :
                 (/\ last'.op = "acquire"
                  /\ AcquireLock(call[1], call[2], priority, timeout_arg,
                                 owner_thread_id, MaxUuid))
                 => LET r == acquire_lock(WithoutCallbacks, call[1], call[2], priority,
                                          timeout_arg, owner_thread_id)
                    IN /\ last'.outcome = r.outcome
                       /\ last'.lock_id = r.lock_id
                       /\ locks_by_agent' = r.s.locks_by_agent
                       /\ wait_for_graph' = r.s.wait_for_graph
                       /\ lock_history' = r.s.lock_history
                       /\ conflict_history' = r.s.conflict_history
          /\ \A lock_id \in LockIds :
                 (last'.op = "release" /\ ReleaseLock(lock_id))
                 => LET r == release_lock(WithoutCallbacks, lock_id)
                    IN /\ last'.outcome = "returned"
                       /\ last'.ret = r.ret
                       /\ locks_by_agent' = r.s.locks_by_agent
                       /\ wait_for_graph' = r.s.wait_for_graph
                       /\ lock_history' = r.s.lock_history
                       /\ conflict_history' = r.s.conflict_history
         ]_vars

\* With a raising callback registered before one that returns, a release has
\* promoted a request, and both of its events went to both callbacks.
C20_Witness ==
    /\ event_callbacks = <<"raises", "returns">>
    /\ Promoted
    /\ Len(recorded) = 2
    /\ \A i \in 1..Len(recorded) : recorded[i].delivered = event_callbacks

\* ------------------------------------------------- cycles of a wait-for graph
GraphNodes(g) == {g[i][1] : i \in 1..Len(g)} \cup UNION {g[i][2] : i \in 1..Len(g)}
IsEdge(g, x, y) == y \in GraphGet(g, x)
Successors(g, S) == UNION {GraphGet(g, x) : x \in S}
\* The nodes reached from S by at most n edges.
RECURSIVE ReachableFrom(_, _, _)
ReachableFrom(g, S, n) ==
    IF n = 0 THEN S ELSE ReachableFrom(g, S \cup Successors(g, S), n - 1)
\* x lies on a cycle of g: x is reached from one of its successors.
OnCycle(g, x) == x \in ReachableFrom(g, GraphGet(g, x), Cardinality(GraphNodes(g)))
HasCycle(g) == \E x \in GraphNodes(g) : OnCycle(g, x)

\* C21: after a monitor tick with auto-resolution enabled the wait-for graph
\* has no cycle.
C21_NoCycleAfterMonitorTick ==
    (last.op = "monitor_tick" /\ enable_auto_resolution) => ~HasCycle(wait_for_graph)

\* The number of conflict events that the most recent call recorded.
RecordedConflicts ==
    Cardinality({i \in 1..Len(recorded) : recorded[i].type = "conflict_event"})

\* C22: every call of resolve_deadlock that returns true, under the manual
\* strategy with a victim_lock_id too, records exactly one conflict event of
\* type deadlock, whose resolution is the strategy of the call and whose
\* resolved_at is set (to the time of the call).
C22_ResolveRecordsOneConflictEvent ==
    (last.op = "resolve_deadlock" /\ last.ret) =>
        /\ RecordedConflicts = 1
        /\ conflict_history # <<>>
        /\ LET event == conflict_history[Len(conflict_history)] IN
           /\ event.conflict_type = "deadlock"
           /\ event.resolution = last.strategy
           /\ event.resolved_at = now

\* C23: a conflict event that the control-plane call of resolve_deadlock records
\* has auto_resolved false (the call is not made by the monitor).
C23_ControlPlaneNotAutoResolved ==
    (last.op = "resolve_deadlock" /\ RecordedConflicts > 0) =>
        ~conflict_history[Len(conflict_history)].auto_resolved

\* C24: every list that detect_cycles returns is a cycle of the wait-for graph:
\* its first and last elements are equal and each element has an edge to the
\* next one, whatever calls of update_wait_for_graph and remove_from_graph
\* built the graph.
C24_ReportedCyclesAreCycles ==
    last.op = "detect_cycles" =>
        \A k \in 1..Len(last.cycles) :
            LET cycle == last.cycles[k] IN
            /\ Len(cycle) >= 2
            /\ cycle[1] = cycle[Len(cycle)]
            /\ \A i \in 1..(Len(cycle) - 1) : IsEdge(wait_for_graph, cycle[i], cycle[i + 1])

\* C25: detect_cycles reports every cycle: its result is not empty when the
\* graph has a cycle, and every agent that is on a cycle is in a reported cycle.
C25_EveryCycleReported ==
    last.op = "detect_cycles" =>
        /\ HasCycle(wait_for_graph) => last.cycles # <<>>
        /\ \A x \in GraphNodes(wait_for_graph) :
               OnCycle(wait_for_graph, x) =>
                   \E k \in 1..Len(last.cycles) :
                       \E i \in 1..Len(last.cycles[k]) : last.cycles[k][i] = x

\* C26: detect_cycles and detect_deadlocks leave the wait-for graph and the lock
\* table as they found them.
C26_DetectionReadsOnly ==
    [][(last'.op \in {"detect_cycles", "detect_deadlocks"}) =>
           UNCHANGED <<wait_for_graph, locks_by_agent>>]_vars

\* detect_deadlocks has reported a deadlock while locks are held.
C26_Witness ==
    /\ last.op = "detect_deadlocks"
    /\ last.deadlocks # <<>>
    /\ locks_by_agent # <<>>
    /\ HasCycle(wait_for_graph)

\* ------------------------------------------------ the victim of a strategy
\* The step is a call of resolve_deadlock under one of the ordering strategies
\* that returns True.
ResolvedByOrder ==
    /\ last'.op = "resolve_deadlock" /\ last'.ret
    /\ last'.strategy \in {"priority", "youngest", "oldest"}
    /\ now' = now

\* lock is extremal among involved_locks on the key of the strategy.
Extremal(strategy, involved_locks, lock) ==
    \A i \in 1..Len(involved_locks) :
        CASE strategy = "priority" -> involved_locks[i].priority <= lock.priority
          [] strategy = "youngest" -> involved_locks[i].acquired_at <= lock.acquired_at
          [] strategy = "oldest" -> involved_locks[i].acquired_at >= lock.acquired_at

\* Among the locks that tie with lock on the key of the strategy, lock is the
\* largest on the secondary key.
TieBrokenBySecondaryKey(strategy, involved_locks, lock) ==
    \A i \in 1..Len(involved_locks) :
        IF strategy = "priority"
        THEN involved_locks[i].priority = lock.priority
                 => involved_locks[i].acquired_at <= lock.acquired_at
        ELSE involved_locks[i].acquired_at = lock.acquired_at
                 => involved_locks[i].priority <= lock.priority

\* C27: for a cycle whose agents hold locks, resolve_deadlock releases a lock
\* that is extremal among the locks it considered: largest priority under
\* priority, largest acquired_at under youngest, smallest acquired_at under
\* oldest.
C27_VictimIsExtremal ==
    [][ResolvedByOrder =>
           LET involved_locks == InvolvedLocks(locks_by_agent, last'.cycle) IN
           \E i \in 1..Len(involved_locks) :
               /\ involved_locks[i].lock_id = last'.victim
               /\ Extremal(last'.strategy, involved_locks, involved_locks[i])
               /\ \A k \in 1..Len(locks_by_agent') :
                      locks_by_agent'[k][2].lock_id # last'.victim]_vars

\* resolve_deadlock under the oldest strategy has released one of two locks of
\* a cycle, the other one having been acquired later.
C27_Witness ==
    /\ last.op = "resolve_deadlock" /\ last.ret /\ last.strategy = "oldest"
    /\ Len(last.cycle) = 3
    /\ \E l \in Locks : l.acquired_at > 0 /\ l.agent_name \in {last.cycle[1], last.cycle[2]}
    /\ \E i \in 1..Len(lock_history) :
           /\ lock_history[i].event_type = "released"
           /\ lock_history[i].lock_id = last.victim
           /\ lock_history[i].agent_name \in {last.cycle[1], last.cycle[2]}

\* C28: when locks tie on the key of the strategy the victim is the one with
\* the largest secondary key, whatever the order of the cycle: largest
\* acquired_at under priority, largest priority under youngest and oldest.
C28_TiesBySecondaryKey ==
    [][ResolvedByOrder =>
           LET involved_locks == InvolvedLocks(locks_by_agent, last'.cycle) IN
           \A i \in 1..Len(involved_locks) :
               involved_locks[i].lock_id = last'.victim
                   => TieBrokenBySecondaryKey(last'.strategy, involved_locks,
                                              involved_locks[i])]_vars

\* Every edge of the cycle is an edge of the graph g.
CycleInGraph(g, cycle) ==
    \A i \in 1..(Len(cycle) - 1) : IsEdge(g, cycle[i], cycle[i + 1])

\* detect_deadlocks has reported the cycle: its conflict event is in the history.
Detected(cycle) ==
    \E i \in 1..Len(conflict_history) :
        /\ conflict_history[i].resolution = None
        /\ conflict_history[i].involved_agents = SubSeq(cycle, 1, Len(cycle) - 1)

\* C29: resolve_deadlock(cycle), as the monitor calls it, on a detected cycle
\* whose edges are not all in the wait-for graph any more releases no lock: the
\* lock table is unchanged.
C29_BrokenCycleReleasesNothing ==
    [][(/\ last'.op = "resolve_deadlock"
        /\ last'.strategy = None
        /\ Detected(last'.cycle)
        /\ ~CycleInGraph(wait_for_graph, last'.cycle))
           => UNCHANGED locks_by_agent]_vars

\* The thread holds _locks_lock in release_lock and waits for _analytics_lock.
ReleaseWaitsForAnalyticsLock(thread) ==
    /\ pc[thread].at = "release_611"
    /\ locks_lock = thread
    /\ analytics_lock \notin {"free", thread}

\* The thread holds _analytics_lock in get_analytics and waits for _locks_lock.
AnalyticsWaitsForLocksLock(thread) ==
    /\ pc[thread].at = "analytics_851"
    /\ analytics_lock = thread
    /\ locks_lock \notin {"free", thread}

\* C30: with get_analytics and release_lock running on different threads, no
\* state has each thread holding one of the two mutexes and waiting for the
\* other one.
C30_NoLockOrderDeadlock ==
    ~ \E t, u \in Threads :
          /\ t # u
          /\ ReleaseWaitsForAnalyticsLock(t)
          /\ AnalyticsWaitsForLocksLock(u)

\* C31: while monitoring is started and not stopped, a pass of the monitor loop
\* in which detection or resolution raised an Exception is followed by another
\* pass.
C31_MonitorSurvivesErrors ==
    \A n \in {0, 1} :
        (running /\ last.op = "monitor_loop" /\ last.fault # "none" /\ ticks = n)
            ~> (~running \/ ticks # n)

\* A pass in which the resolution of a detected deadlock raised has been made,
\* and the monitor has not been stopped.
C31_Witness ==
    /\ running
    /\ monitor_task = "sleeping"
    /\ last.op = "monitor_loop" /\ last.fault = "resolution"
    /\ last.deadlocks # <<>>

\* history2 is history after n appends to a deque of capacity HistorySize: the
\* oldest events went, as many as the capacity required and no more, and the
\* events that stayed are in their old order, before the new ones.
AppendedDroppingOldest(history, history2, n) ==
    LET dropped == IF Len(history) + n > HistorySize
                   THEN Len(history) + n - HistorySize ELSE 0
        kept == IF dropped >= Len(history) THEN <<>>
                ELSE SubSeq(history, dropped + 1, Len(history))
    IN /\ Len(history2) <= HistorySize
       /\ Len(history2) = Len(history) + n - dropped
       /\ SubSeq(history2, 1, Len(kept)) = kept

\* The number of events of the given kind ("lock_event" or "conflict_event")
\* that the call of this step recorded.
RecordedOfType(type) ==
    Len(SelectSeq(recorded', LAMBDA r : r.type = type))

\* C32: neither history ever holds more events than its capacity; a call that
\* records events drops the oldest events of a full history, exactly as many
\* as it appends, and leaves the others in their order.
C32_HistoriesBoundedDropOldest ==
    [][\/ UNCHANGED <<lock_history, conflict_history>>
       \/ /\ AppendedDroppingOldest(lock_history, lock_history',
                                    RecordedOfType("lock_event"))
          /\ AppendedDroppingOldest(conflict_history, conflict_history',
                                    RecordedOfType("conflict_event"))]_vars

\* Both histories are full, and the first lock event ever recorded (lock 1
\* acquired) has been dropped.
C32_Witness ==
    /\ Len(lock_history) = HistorySize
    /\ Len(conflict_history) = HistorySize
    /\ \A i \in 1..Len(lock_history) : lock_history[i].lock_id # 1
    /\ Len(recorded) = 2

\* The n most recent events of a history, oldest first.
MostRecent(history, n) == SubSeq(history, Len(history) - n + 1, Len(history))

\* C33: get_lock_history(limit) and get_conflict_history(limit) return the
\* min(limit, n) most recent of the n retained events, oldest first, for every
\* limit >= 0: nothing when limit is 0.
C33_HistoryQueryReturnsMostRecent ==
    /\ last.op = "get_lock_history" =>
           last.ret = MostRecent(lock_history,
                                 IF last.limit < Len(lock_history) THEN last.limit
                                 ELSE Len(lock_history))
    /\ last.op = "get_conflict_history" =>
           last.ret = MostRecent(conflict_history,
                                 IF last.limit < Len(conflict_history) THEN last.limit
                                 ELSE Len(conflict_history))

\* C34: a resolve request whose strategy string is none of priority, youngest,
\* oldest, random, manual is rejected and releases no lock.
C34_UnknownStrategyRejected ==
    (last.op = "resolve_deadlock_endpoint" /\ last.strategy \notin Strategies) =>
        /\ last.status = 400
        /\ last.victim = 0

\* The lock_ids of the locks that the agents of the cycle hold.
LockIdsHeldBy(cycle) ==
    {l.lock_id : l \in {h \in Locks : \E i \in 1..Len(cycle) : cycle[i] = h.agent_name}}

\* C35: the deadlock record of a detected cycle lists in involved_locks the
\* lock_ids of the locks held by the agents of the cycle: the list is not empty
\* when these agents hold locks.
C35_InvolvedLocksListed ==
    last.op = "detect_deadlocks" =>
        \A k \in 1..Len(last.deadlocks) :
            LET deadlock == last.deadlocks[k] IN
            {deadlock.involved_locks[i] : i \in 1..Len(deadlock.involved_locks)}
                = LockIdsHeldBy(deadlock.cycle)

\* C36: between two resets every call of get_global_concurrency_manager,
\* whatever thread makes it, returns the same instance, and at most one
\* instance is created.
C36_OneManagerInstance ==
    /\ \A r1, r2 \in returned : r1[2] = r2[2]
    /\ created <= 1

\* Since the last reset, which followed the creation of an instance, both
\* threads have called get_global_concurrency_manager.
C36_Witness ==
    /\ instances >= 2
    /\ \A thread \in Threads : \E r \in returned : r[1] = thread

\* C37: in an analytics snapshot total_locks_acquired is the number of acquired
\* and acquired_from_queue events of the retained lock history and
\* total_locks_released the number of released and overridden events; queued
\* events count toward neither, so released <= acquired.
C37_AnalyticsCountsByEventType ==
    last.op = "get_analytics" =>
        /\ last.ret.total_locks_acquired
               = Len(SelectSeq(lock_history,
                               LAMBDA e : e.event_type \in {"acquired", "acquired_from_queue"}))
        /\ last.ret.total_locks_released
               = Len(SelectSeq(lock_history,
                               LAMBDA e : e.event_type \in {"released", "overridden"}))
        /\ last.ret.total_locks_released <= last.ret.total_locks_acquired

\* The agents of a cycle.
CycleAgents(cycle) == {cycle[i] : i \in 1..Len(cycle)}

\* C38: the lock that resolve_deadlock releases for a cycle of the wait-for graph
\* is involved in the cycle: before the call an agent of the cycle holds it and
\* an agent of the cycle waits in its queue.
C38_VictimInvolvedInCycle ==
    [][(/\ last'.op = "resolve_deadlock"
        /\ last'.victim # 0
        /\ CycleInGraph(wait_for_graph, last'.cycle))
           => \E l \in Locks :
                  /\ l.lock_id = last'.victim
                  /\ l.agent_name \in CycleAgents(last'.cycle)
                  /\ \E i \in 1..Len(l.waiting_queue) :
                         l.waiting_queue[i].agent_name \in CycleAgents(last'.cycle)]_vars

\* C39: every lock of the lock table has a lock_id that acquire_lock returned to
\* its caller: a lock_id enters the table only in a step of acquire_lock that
\* returns it; no lock is made for a request whose call ended with TimeoutError.
C39_LockIdsReturnedToCallers ==
    [][\A l \in Locks' :
           \/ Held(l.lock_id)
           \/ /\ last'.op = "acquire"
              /\ last'.outcome = "returned"
              /\ last'.lock_id = l.lock_id]_vars

\* The messages about a recorded event sent to one connection.
SentTo(websocket, entry) ==
    SelectSeq(Broadcasts(entry.delivered, active_connections,
                         [type |-> entry.type, event_type |-> entry.event_type,
                          lock_id |-> entry.lock_id]),
              LAMBDA m : m[1] = websocket)

\* C40: whatever WebSocket clients connect and disconnect, at most one
\* event_callback of the front end is registered with the manager, and every
\* event a call records is sent to every connected client exactly once.
C40_OneFrontendCallback ==
    /\ Len(SelectSeq(event_callbacks, LAMBDA c : c = "event_callback")) <= 1
    /\ \A k \in 1..Len(recorded) :
           \A i \in 1..Len(active_connections) :
               Len(SentTo(active_connections[i], recorded[k])) = 1
====
